---- MODULE Spec2Model ----
(***************************************************************************)
(* Model of the HEIC lead-image extraction pipeline: main.py drives        *)
(* Config, ImageConverter.convert_all, BatchProcessor.process_batch and    *)
(* the exporters.  A batch is a set of asyncio tasks, one per converted    *)
(* image, gated by an asyncio.Semaphore; each task runs the tenacity-      *)
(* wrapped extract_contact on a worker thread.                             *)
(*                                                                         *)
(* Scope of the inputs: the input directory holds files IMG_1.HEIC ..      *)
(* IMG_n.HEIC (upper-case suffix only); max_concurrent is an integer.      *)
(* process_batch is reachable through main and, as a public coroutine,     *)
(* by a direct call on a constructed BatchProcessor (caller = "direct"),   *)
(* the only way to run it on an empty list.                                *)
(***************************************************************************)
EXTENDS Integers, Sequences, FiniteSets, TLC

\* ---------------------------------------------------------------- bounds
MaxFiles == 3
MaxDirectPaths == 2
MaxConcurrent == 2
MaxFairFiles == 2

\* ------------------------------------------------------ program constants
MaxAttempts == 3
Multiplier == 1
MinWait == 4
MaxWait == 60

Null == "null"

VARIABLES caller, env, heic_files, pc, image_paths, failed_conversions,
          sem, batch_pc, tasks, res, results, batch_exc, reports, exit_code

vars == <<caller, env, heic_files, pc, image_paths, failed_conversions,
          sem, batch_pc, tasks, res, results, batch_exc, reports, exit_code>>

\* ---------------------------------------------------------------- helpers
Max(a, b) == IF a >= b THEN a ELSE b
Min(a, b) == IF a <= b THEN a ELSE b

RECURSIVE Pow2(_)
Pow2(n) == IF n <= 0 THEN 1 ELSE 2 * Pow2(n - 1)

\* ------------------------------------------------------------------ paths
\* A path is its stem and its suffix; the directory part plays no role.
HeicPath(n) == [stem |-> n, suffix |-> "HEIC"]

\* ImageConverter.convert_single: output_dir / f"{heic_path.stem}.jpg"
JpegPath(heic_path) == [stem |-> heic_path.stem, suffix |-> "jpg"]

\* image_path.stem + '.HEIC'
SourceImage(image_path) == [stem |-> image_path.stem, suffix |-> "HEIC"]

\* heic_file.name
FileName(heic_path) == heic_path

\* -------------------------------------------------------------- exceptions
\* Exception classes the inference step can raise inside extract_contact.
ErrorKinds == {"APIConnectionError", "RateLimitError", "ValidationError"}

\* The message str(e) of an exception raised by the remote call.
ErrorMessage(kind) ==
    CASE kind = "APIConnectionError" -> "Connection error."
      [] kind = "RateLimitError"     -> "Rate limit reached"
      [] kind = "ValidationError"    -> "validation error for ExtractionResult"
      [] OTHER                       -> "error"

\* tenacity without reraise=True: exhaustion raises RetryError(last_attempt)
RetryError(kind) == [cls |-> "RetryError", msg |-> Null, last |-> kind]

\* result.contact on result = None
AttributeError ==
    [cls |-> "AttributeError",
     msg |-> "'NoneType' object has no attribute 'contact'", last |-> Null]

\* str(e): RetryError prints "RetryError[<Future ... raised Kind>]", every
\* other exception prints its message.
Str(e) ==
    IF e.cls = "RetryError"
    THEN <<"RetryError[", e.last, "]">>
    ELSE <<e.msg>>

NoError == <<>>

\* classes derived from Exception, the ones "except Exception" catches
ExceptionSubclasses == ErrorKinds \cup {"RetryError", "AttributeError"}

\* variant: the handler names the API errors and misses RetryError
CatchesApiErrorsOnly(e) == e.cls \in ErrorKinds \cup {"AttributeError"}

\* process_single_image: "except Exception as e"
Catches(e) == e.cls \in ExceptionSubclasses

\* ------------------------------------------------------------ retry policy
\* variant: the stop condition is off by one
stop_after_attempt_late(attempt_number) == attempt_number > MaxAttempts

\* @retry(stop=stop_after_attempt(3), ...): stop once attempt_number >= 3
stop_after_attempt(attempt_number) == attempt_number >= MaxAttempts

\* wait_exponential(multiplier=1, min=4, max=60), called after attempt k:
\* max(max(0, min), min(multiplier * 2 ** (k - 1), max))
wait_exponential(attempt_number) ==
    Max(Max(0, MinWait), Min(Multiplier * Pow2(attempt_number - 1), MaxWait))

\* --------------------------------------------------------------- outcomes
\* process_single_image, return of the try branch
SuccessOutcome(image_path) ==
    [status |-> "success",
     data   |-> [contact |-> "ContactInfo", source_image |-> SourceImage(image_path)],
     error  |-> NoError]

\* variant: the except branch reports a third status
FailedOutcomeError(image_path, e) ==
    [status |-> "error",
     data   |-> [source_image |-> SourceImage(image_path)],
     error  |-> Str(e)]

\* process_single_image, return of the except branch
FailedOutcome(image_path, e) ==
    [status |-> "failed",
     data   |-> [source_image |-> SourceImage(image_path)],
     error  |-> Str(e)]

\* ---------------------------------------------------------------- the gate
\* variant: the gate admits one caller too many
CanAcquireAtZero(value) == value >= 0

\* variant: the gate wants a second free slot
CanAcquireAboveOne(value) == value > 1

\* asyncio.Semaphore.acquire proceeds without waiting iff the value is > 0
CanAcquire(value) == value > 0

\* tasks inside "async with self.semaphore"
Holding == {i \in DOMAIN tasks : tasks[i].st \in {"inflight", "sleeping"}}

\* ------------------------------------------------------------ configuration
EnvValues == {Null, "", "value"}

\* "if not self.api_key" / "if not self.endpoint": None and "" are falsy
Missing(v) == v = Null \/ v = ""

\* variant: only the API key is validated
ConfigRaisesKeyOnly(e) == Missing(e.api_key)

\* Config.__init__ raises ValueError unless both credentials are present
ConfigRaises(e) == Missing(e.api_key) \/ Missing(e.endpoint)

\* a task of process_single_image: its position, the attempt number of
\* extract_contact, the backoff waits slept so far, and what its final
\* attempt did (the class it raised, or the value it returned)
NewTask == [st |-> "waiting", attempts |-> 0, waits |-> <<>>, final |-> Null]

\* no exception has left process_batch
NoException == [cls |-> Null, msg |-> Null, last |-> Null]

\* the output files: which have been written, and their content (blank
\* for a file not written)
NoReports ==
    [written |-> {},
     json  |-> [total_images |-> 0, processed |-> 0, successful |-> 0,
                failed |-> 0, contacts |-> <<>>, errors |-> <<>>],
     csv   |-> [rows |-> <<>>,
                summary |-> [total_images |-> 0, successful |-> 0, failed |-> 0]],
     retry |-> [conversion_lines |-> <<>>, extraction_lines |-> <<>>,
                total |-> <<>>, raised |-> FALSE]]

Init ==
    /\ caller \in {"main", "direct"}
    /\ failed_conversions = <<>>
    /\ batch_pc = "idle"
    /\ tasks = <<>>
    /\ res = <<>>
    /\ results = <<>>
    /\ batch_exc = NoException
    /\ reports = NoReports
    /\ exit_code = -1          \* main has not returned
    /\ \E n \in 0..(IF caller = "main" THEN MaxFiles ELSE MaxDirectPaths) :
         IF caller = "main"
         THEN /\ env \in [api_key : EnvValues, endpoint : EnvValues,
                          max_concurrent : (-1)..MaxConcurrent]
              /\ heic_files = [i \in 1..n |-> HeicPath(i)]
              /\ image_paths = <<>>
              /\ sem = 0      \* no BatchProcessor yet
              /\ pc = "start"
         ELSE \* a BatchProcessor already constructed, process_batch not yet called
              /\ env \in [api_key : {"value"}, endpoint : {"value"},
                          max_concurrent : 0..MaxConcurrent]
              /\ heic_files = <<>>
              /\ image_paths = [i \in 1..n |-> JpegPath(HeicPath(i))]
              /\ sem = env.max_concurrent
              /\ pc = "call"

\* ------------------------------------------------------------------- main
\* main: config = Config(); a ValueError is caught and main returns 1
ConfigInit ==
    /\ pc = "start"
    /\ IF ConfigRaises(env)
       THEN /\ pc' = "done"
            /\ exit_code' = 1
       ELSE /\ pc' = "convert"
            /\ UNCHANGED exit_code
    /\ UNCHANGED <<caller, env, batch_exc, batch_pc, heic_files, image_paths, failed_conversions,
                   sem, tasks, res, results, reports>>

\* ImageConverter.convert_all with the files in `fails` failing to convert
Converted(files, fails) ==
    LET ok == SelectSeq(files, LAMBDA f : f \notin fails)
    IN  [i \in 1..Len(ok) |-> JpegPath(ok[i])]

FailedConversions(files, fails) ==
    LET bad == SelectSeq(files, LAMBDA f : f \in fails)
    IN  [i \in 1..Len(bad) |->
            [filename |-> FileName(bad[i]), error |-> "cannot identify image file",
             stage |-> "conversion"]]

\* main, step 1: convert_all, then "if not converted_images: return 1"
ConvertAll ==
    /\ pc = "convert"
    /\ \E fails \in SUBSET {heic_files[i] : i \in DOMAIN heic_files} :
         /\ image_paths' = Converted(heic_files, fails)
         /\ failed_conversions' = FailedConversions(heic_files, fails)
    /\ IF image_paths' = <<>>
       THEN /\ pc' = "done"
            /\ exit_code' = 1
       ELSE /\ pc' = "processor"
            /\ UNCHANGED exit_code
    /\ UNCHANGED <<caller, env, batch_exc, batch_pc, heic_files, sem, tasks, res, results, reports>>

\* main, steps 2-3: BatchProcessor(...) builds Semaphore(max_concurrent),
\* which raises ValueError on a negative value (caught: main returns 1)
InitProcessor ==
    /\ pc = "processor"
    /\ IF env.max_concurrent < 0
       THEN /\ pc' = "done"
            /\ exit_code' = 1
            /\ UNCHANGED sem
       ELSE /\ pc' = "call"
            /\ sem' = env.max_concurrent
            /\ UNCHANGED exit_code
    /\ UNCHANGED <<caller, env, batch_exc, batch_pc, heic_files, image_paths, failed_conversions,
                   tasks, res, results, reports>>

\* ---------------------------------------------------------- process_batch
\* tasks = [self.process_single_image(path) for path in image_paths]
ProcessBatchStart ==
    /\ pc = "call"
    /\ batch_pc = "idle"
    /\ tasks' = [i \in 1..Len(image_paths) |-> NewTask]
    /\ res' = <<>>
    /\ pc' = "running"
    /\ batch_pc' = "gather"
    /\ UNCHANGED <<caller, env, batch_exc, heic_files, image_paths, failed_conversions,
                   sem, results, reports, exit_code>>

\* variant: the outcome is returned on a path that skips the release
ReturnNoRelease(i, final, outcome) ==
    /\ tasks' = [tasks EXCEPT ![i].st = "done", ![i].final = final]
    /\ sem' = sem
    /\ res' = Append(res, <<i, outcome>>)
    /\ UNCHANGED <<pc, batch_pc, batch_exc, exit_code>>

\* the task leaves "async with self.semaphore" (release) and returns its
\* outcome; as_completed hands (i, outcome) over in completion order
Return(i, final, outcome) ==
    /\ tasks' = [tasks EXCEPT ![i].st = "done", ![i].final = final]
    /\ sem' = sem + 1
    /\ res' = Append(res, <<i, outcome>>)
    /\ UNCHANGED <<pc, batch_pc, batch_exc, exit_code>>

\* an exception leaves process_single_image: the gate is released, gather
\* re-raises it out of process_batch, and main's "except Exception"
\* returns 1
Propagate(i, final, e) ==
    /\ tasks' = [tasks EXCEPT ![i].st = "done", ![i].final = final]
    /\ sem' = sem + 1
    /\ batch_exc' = e
    /\ batch_pc' = "raised"
    /\ pc' = "done"
    /\ exit_code' = IF caller = "main" THEN 1 ELSE exit_code
    /\ UNCHANGED res

\* process_single_image, the try/except around the extraction
Handle(i, final, e) ==
    IF Catches(e)
    THEN Return(i, final, FailedOutcome(image_paths[i], e))
    ELSE Propagate(i, final, e)

\* process_single_image: "async with self.semaphore" entered, the first
\* attempt of extract_contact starts on a worker thread
Acquire(i) ==
    /\ batch_pc = "gather"
    /\ tasks[i].st = "waiting"
    /\ CanAcquire(sem)
    /\ sem' = sem - 1
    /\ tasks' = [tasks EXCEPT ![i].st = "inflight", ![i].attempts = 1]
    /\ UNCHANGED <<caller, env, batch_exc, batch_pc, heic_files, pc, image_paths, failed_conversions,
                   res, results, reports, exit_code>>

\* an attempt of extract_contact raises: tenacity either sleeps and retries
\* or, once stop_after_attempt holds, raises RetryError, which the except
\* branch of process_single_image turns into a failed outcome
AttemptRaises(i, kind) ==
    /\ batch_pc = "gather"
    /\ tasks[i].st = "inflight"
    /\ IF stop_after_attempt(tasks[i].attempts)
       THEN Handle(i, kind, RetryError(kind))
       ELSE /\ tasks' = [tasks EXCEPT
                           ![i].st = "sleeping",
                           ![i].waits = Append(@, wait_exponential(tasks[i].attempts))]
            /\ UNCHANGED <<sem, res, pc, batch_pc, batch_exc, exit_code>>
    /\ UNCHANGED <<caller, env, heic_files, image_paths, failed_conversions,
                   results, reports>>

\* the backoff sleep ends and the next attempt starts
Wake(i) ==
    /\ batch_pc = "gather"
    /\ tasks[i].st = "sleeping"
    /\ tasks' = [tasks EXCEPT ![i].st = "inflight", ![i].attempts = @ + 1]
    /\ UNCHANGED <<caller, env, batch_exc, batch_pc, heic_files, pc, image_paths, failed_conversions,
                   sem, res, results, reports, exit_code>>

\* response.choices[0].message.parsed: an ExtractionResult, or None
ParsedValues == {"ExtractionResult", Null}

\* an attempt of extract_contact returns `parsed`; result.contact raises
\* AttributeError on None, inside the try of process_single_image
AttemptReturns(i, parsed) ==
    /\ batch_pc = "gather"
    /\ tasks[i].st = "inflight"
    /\ IF parsed = Null
       THEN Handle(i, "None", AttributeError)
       ELSE Return(i, parsed, SuccessOutcome(image_paths[i]))
    /\ UNCHANGED <<caller, env, heic_files, image_paths, failed_conversions,
                   results, reports>>

\* variant: the gather returns at the first completion
AsCompletedExhaustedFirst == Len(res) >= 1 \/ Len(tasks) = 0

\* tqdm_asyncio.gather: res = [await f for f in as_completed(ifs)] is
\* complete once every task has handed over its (i, outcome)
AsCompletedExhausted == Len(res) = Len(tasks)

\* sorted(res): ascending on the task index, the first tuple component
RECURSIVE Insert(_, _)
Insert(x, s) ==
    IF s = <<>> THEN <<x>>
    ELSE IF x[1] <= Head(s)[1] THEN <<x>> \o s
    ELSE <<Head(s)>> \o Insert(x, Tail(s))

RECURSIVE Sorted(_)
Sorted(r) == IF r = <<>> THEN <<>> ELSE Insert(Head(r), Sorted(Tail(r)))

\* variant: the gathered list is left in completion order
GatherResultUnsorted(r) == [k \in 1..Len(r) |-> r[k][2]]

\* tqdm_asyncio.gather: return [i for _, i in sorted(res)]
GatherResult(r) == [k \in 1..Len(r) |-> Sorted(r)[k][2]]

\* process_batch returns the gathered list
GatherReturn ==
    /\ batch_pc = "gather"
    /\ AsCompletedExhausted
    /\ results' = GatherResult(res)
    /\ batch_pc' = "returned"
    /\ pc' = IF caller = "main" THEN "export" ELSE "done"
    /\ UNCHANGED <<caller, env, batch_exc, heic_files, image_paths, failed_conversions,
                   sem, tasks, res, reports, exit_code>>

\* --------------------------------------------------------------- reporting
\* [r for r in results if r['status'] == 'success']
Successful(rs) == SelectSeq(rs, LAMBDA r : r.status = "success")

\* [r for r in results if r['status'] == 'failed']
Failed(rs) == SelectSeq(rs, LAMBDA r : r.status = "failed")

\* export_to_json: metadata, contacts and errors
JsonReport(rs) ==
    [total_images |-> Len(rs),
     processed    |-> Len(Successful(rs)) + Len(Failed(rs)),
     successful   |-> Len(Successful(rs)),
     failed       |-> Len(Failed(rs)),
     contacts     |-> [k \in 1..Len(Successful(rs)) |-> Successful(rs)[k].data],
     errors       |-> [k \in 1..Len(Failed(rs)) |->
                         [source_image |-> Failed(rs)[k].data.source_image,
                          error |-> Failed(rs)[k].error]]]

\* export_to_csv: rows of the successful contacts and the summary record
CsvReport(rs) ==
    [rows    |-> [k \in 1..Len(Successful(rs)) |-> Successful(rs)[k].data],
     summary |-> [total_images |-> Len(rs),
                  successful   |-> Len(Successful(rs)),
                  failed       |-> Len(Failed(rs))]]

\* main, "Analyze results" and step 4 up to the CSV export; the frame of
\* the finished gather (res) no longer exists
ExportResults ==
    /\ pc = "export"
    /\ res' = <<>>
    /\ reports' = [reports EXCEPT !.written = @ \cup {"json", "csv"},
                                  !.json = JsonReport(results),
                                  !.csv = CsvReport(results)]
    /\ pc' = "retry_list"
    /\ UNCHANGED <<caller, env, batch_exc, batch_pc, heic_files, image_paths, failed_conversions,
                   sem, tasks, results, exit_code>>

\* number of leading items of `items` that carry every key in `keys`
RECURSIVE Readable(_, _)
Readable(items, keys) ==
    IF items = <<>> \/ ~(keys \subseteq DOMAIN Head(items)) THEN 0
    ELSE 1 + Readable(Tail(items), keys)

\* create_retry_list: item['filename'] / item['source_image'] and
\* item['error'] are read for each entry; a missing key raises KeyError and
\* leaves the file without the remaining entries and without the total
\* line (total is the sequence of total lines written)
create_retry_list(conversions, extractions) ==
    LET nc == Readable(conversions, {"filename", "error"})
        ne == IF nc = Len(conversions)
              THEN Readable(extractions, {"source_image", "error"}) ELSE 0
        raised == nc < Len(conversions) \/ ne < Len(extractions)
    IN  [conversion_lines |-> [k \in 1..nc |->
                                [name |-> conversions[k].filename,
                                 error |-> conversions[k].error]],
         extraction_lines |-> [k \in 1..ne |->
                                [name |-> extractions[k].source_image,
                                 error |-> extractions[k].error]],
         total  |-> IF raised THEN <<>> ELSE <<Len(conversions) + Len(extractions)>>,
         raised |-> raised]

\* main: failed_conversions + [{"source_image": ..., "error": ...} for f in failed]
AllFailures(conversions, failed) ==
    conversions \o [k \in 1..Len(failed) |->
                      [source_image |-> failed[k].data.source_image,
                       error |-> failed[k].error]]

\* main: "Return exit code based on results"
ExitCode(successful, failed) ==
    IF Len(failed) = 0 THEN 0
    ELSE IF Len(successful) > 0 THEN 0
    ELSE 1

\* main from "Create retry list" to its return; an exception raised by
\* create_retry_list is caught by "except Exception" and main returns 1
RetryListAndReturn ==
    /\ pc = "retry_list"
    /\ LET failed == Failed(results)
           successful == Successful(results)
           written == create_retry_list(failed_conversions, failed)
       IN  IF AllFailures(failed_conversions, failed) # <<>>
           THEN /\ reports' = [reports EXCEPT !.written = @ \cup {"retry"},
                                             !.retry = written]
                /\ exit_code' = IF written.raised THEN 1
                                ELSE ExitCode(successful, failed)
           ELSE /\ UNCHANGED reports
                /\ exit_code' = ExitCode(successful, failed)
    /\ pc' = "done"
    /\ UNCHANGED <<caller, env, batch_exc, batch_pc, heic_files, image_paths, failed_conversions,
                   sem, tasks, res, results>>

Next ==
    \/ ConfigInit
    \/ ConvertAll
    \/ InitProcessor
    \/ ProcessBatchStart
    \/ \E i \in DOMAIN tasks : Acquire(i)
    \/ \E i \in DOMAIN tasks, kind \in ErrorKinds : AttemptRaises(i, kind)
    \/ \E i \in DOMAIN tasks : Wake(i)
    \/ \E i \in DOMAIN tasks, parsed \in ParsedValues : AttemptReturns(i, parsed)
    \/ GatherReturn
    \/ ExportResults
    \/ RetryListAndReturn

Spec == Init /\ [][Next]_vars

\* the largest number of tasks a batch can have
MaxJobs == Max(MaxFiles, MaxDirectPaths)

\* the worker thread of task i ends its current attempt, either way
AttemptEnds(i) ==
    \/ \E kind \in ErrorKinds : AttemptRaises(i, kind)
    \/ \E parsed \in ParsedValues : AttemptReturns(i, parsed)

\* Scheduling: main and the event loop take their next step when they can
\* (a ready task acquires a free gate, a complete gather returns); a worker
\* thread's remote call ends and its time.sleep ends.
Fairness ==
    /\ WF_vars(ConfigInit \/ ConvertAll \/ InitProcessor \/ ProcessBatchStart
                  \/ ExportResults \/ RetryListAndReturn)
    /\ WF_vars(GatherReturn)
    /\ \A i \in 1..MaxJobs :
         /\ WF_vars(i \in DOMAIN tasks /\ Acquire(i))
         /\ WF_vars(i \in DOMAIN tasks /\ AttemptEnds(i))
         /\ WF_vars(i \in DOMAIN tasks /\ Wake(i))

\* the runs checked for liveness: the same program on at most
\* MaxFairFiles images
FairInit ==
    /\ Init
    /\ Len(heic_files) <= MaxFairFiles
    /\ Len(image_paths) <= MaxFairFiles

FairSpec == FairInit /\ [][Next]_vars /\ Fairness

\* ------------------------------------------------------------------ claims
NumJobs == Len(image_paths)

\* outcomes handed over by task i, in completion order
OutcomesOf(i) == {k \in DOMAIN res : res[k][1] = i}

\* process_batch has returned and its caller has not moved on yet
JustReturned == batch_pc = "returned" /\ pc \in {"export", "done"} /\ "json" \notin reports.written

\* C1: when process_batch has returned, the returned list has exactly one
\* outcome per input job: its length is the number of input paths, every
\* task has finished (none pending), every task handed over exactly one
\* outcome, and that outcome is in the list; an empty input gives <<>>.
C1_OneOutcomePerJob ==
    /\ batch_pc = "returned" =>
         /\ Len(results) = NumJobs
         /\ \A i \in 1..NumJobs : tasks[i].st = "done"
         /\ (NumJobs = 0 => results = <<>>)
    /\ JustReturned =>
         /\ Len(res) = NumJobs
         /\ \A i \in 1..NumJobs :
              /\ Cardinality(OutcomesOf(i)) = 1
              /\ \E k \in DOMAIN results :
                   <<i, results[k]>> = res[CHOOSE n \in OutcomesOf(i) : TRUE]

\* a returned batch of three jobs that completed in an order other than
\* the input order
C1_Witness ==
    /\ JustReturned
    /\ NumJobs = 3
    /\ res[1][1] = 3
    /\ res[2][1] = 1

\* C2: with a concurrency limit C >= 1, the number of tasks between
\* acquiring and releasing the gate never exceeds C.
C2_GateBound ==
    env.max_concurrent >= 1 => Cardinality(Holding) <= env.max_concurrent

\* the gate is full and another task is waiting for it
C2_Witness ==
    /\ batch_pc = "gather"
    /\ env.max_concurrent = 2
    /\ Cardinality(Holding) = 2
    /\ \E i \in DOMAIN tasks : tasks[i].st = "waiting"

\* C3: the outcome at position i of the returned list is the one task i
\* produced and carries stem + '.HEIC' of the i-th input path, whatever
\* the completion order and whether it succeeded or failed.
C3_InputOrder ==
    /\ batch_pc = "returned" =>
         \A i \in DOMAIN results :
            results[i].data.source_image =
                [stem |-> image_paths[i].stem, suffix |-> "HEIC"]
    /\ JustReturned =>
         \A i \in DOMAIN results : \E k \in DOMAIN res : res[k] = <<i, results[i]>>

\* job 2 completed first and failed, job 1 completed later and succeeded
C3_Witness ==
    /\ JustReturned
    /\ NumJobs >= 2
    /\ res[1][1] = 2
    /\ results[2].status = "failed"
    /\ results[1].status = "success"
    /\ results[1].data.source_image # results[2].data.source_image
\* C4: a job whose every attempt raised yields a 'failed' outcome in the
\* returned list, no exception leaves process_batch, and every job whose
\* remote call returned a parsed record yields 'success' whatever the other
\* jobs did.
C4_FailureIsData ==
    /\ batch_pc # "raised"
    /\ batch_pc = "returned" =>
         \A i \in 1..NumJobs :
            /\ tasks[i].final \in ErrorKinds => results[i].status = "failed"
            /\ tasks[i].final = "ExtractionResult" =>
                   (results[i].status = "success" /\ results[i].error = NoError)

\* three jobs, the second raised on all three attempts: success, failed,
\* success
C4_Witness ==
    /\ batch_pc = "returned"
    /\ NumJobs = 3
    /\ tasks[2].final \in ErrorKinds
    /\ tasks[2].attempts = 3
    /\ tasks[1].final = "ExtractionResult"
    /\ tasks[3].final = "ExtractionResult"
    /\ results[1].status = "success"
    /\ results[2].status = "failed"
    /\ results[3].status = "success"

\* C5: a job whose every attempt raised was attempted exactly 3 times; no
\* job is attempted more than 3 times; the k-th backoff wait is
\* max(4, min(60, 1 * 2^(k-1))), so the waits never decrease and never
\* exceed 60.
C5_ExactlyMaxAttempts ==
    \A i \in DOMAIN tasks :
        /\ tasks[i].attempts <= 3
        /\ \A k \in DOMAIN tasks[i].waits :
             /\ tasks[i].waits[k] = Max(4, Min(60, 1 * Pow2(k - 1)))
             /\ tasks[i].waits[k] <= 60
             /\ k > 1 => tasks[i].waits[k - 1] <= tasks[i].waits[k]
        /\ (tasks[i].st = "done" /\ tasks[i].final \in ErrorKinds) =>
             (tasks[i].attempts = 3 /\ Len(tasks[i].waits) = 2)

\* a job that raised on all three attempts, with two waits in between
C5_Witness ==
    \E i \in DOMAIN tasks :
        /\ tasks[i].st = "done"
        /\ tasks[i].final \in ErrorKinds
        /\ tasks[i].attempts = 3
        /\ tasks[i].waits = <<4, 4>>

\* C6: the 'error' field of a job that exhausted its retries is the message
\* of the exception its last attempt raised.
C6_LastErrorMessage ==
    \A k \in DOMAIN res :
        tasks[res[k][1]].final \in ErrorKinds =>
            res[k][2].error = <<ErrorMessage(tasks[res[k][1]].final)>>

\* C7: main returns 0 whenever at least one job succeeded, and then JSON,
\* CSV and (if anything failed) the whole retry list have been written; it
\* returns 1 when the configuration is invalid, when nothing was
\* converted, or when every job failed.
C7_ExitCode ==
    (pc = "done" /\ caller = "main") =>
        /\ (batch_pc = "returned" /\ Successful(results) # <<>>) =>
             /\ exit_code = 0
             /\ {"json", "csv"} \subseteq reports.written
             /\ (Failed(results) # <<>> \/ failed_conversions # <<>>) =>
                  ("retry" \in reports.written /\ ~reports.retry.raised)
        /\ (\/ ConfigRaises(env)
            \/ image_paths = <<>>
            \/ (batch_pc = "returned" /\ Successful(results) = <<>>)) =>
             exit_code = 1

\* C8: when main has reported a batch with at least one conversion or
\* extraction failure, the retry list holds one entry per conversion
\* failure and one per extraction failure, each with its source file name
\* and error, its total is the sum of both counts, and no file that failed
\* to convert was among the paths given to process_batch.
C8_RetryListComplete ==
    (/\ pc = "done"
     /\ caller = "main"
     /\ batch_pc = "returned"
     /\ (failed_conversions # <<>> \/ Failed(results) # <<>>)) =>
        /\ "retry" \in reports.written
        /\ Len(reports.retry.conversion_lines) = Len(failed_conversions)
        /\ \A k \in DOMAIN failed_conversions :
             /\ reports.retry.conversion_lines[k].name = failed_conversions[k].filename
             /\ reports.retry.conversion_lines[k].error = failed_conversions[k].error
             /\ \A j \in DOMAIN image_paths :
                  image_paths[j].stem # failed_conversions[k].filename.stem
        /\ Len(reports.retry.extraction_lines) = Len(Failed(results))
        /\ \A k \in DOMAIN Failed(results) :
             /\ reports.retry.extraction_lines[k].name =
                    Failed(results)[k].data.source_image
             /\ reports.retry.extraction_lines[k].error = Failed(results)[k].error
        /\ ~reports.retry.raised
        /\ reports.retry.total = <<Len(failed_conversions) + Len(Failed(results))>>

\* C9: in every list process_batch returns, each outcome has status
\* 'success' or 'failed', so the two partitions add up to the total; the
\* counts written to the JSON metadata and the CSV summary add up too.
C9_Partition ==
    /\ batch_pc = "returned" =>
         /\ \A k \in DOMAIN results : results[k].status \in {"success", "failed"}
         /\ Len(Successful(results)) + Len(Failed(results)) = Len(results)
    /\ "json" \in reports.written =>
         /\ reports.json.successful + reports.json.failed = reports.json.total_images
         /\ reports.json.processed = reports.json.total_images
         /\ Len(reports.json.contacts) + Len(reports.json.errors) = Len(results)
    /\ "csv" \in reports.written =>
         reports.csv.summary.successful + reports.csv.summary.failed
            = reports.csv.summary.total_images

\* a reported batch with at least one success and at least one failure
C9_Witness ==
    /\ "json" \in reports.written
    /\ reports.json.successful >= 1
    /\ reports.json.failed >= 1
    /\ reports.json.total_images = 3

\* C10: in a run of main with the API key or the endpoint unset, nothing
\* is converted, no job is created, process_batch is never called, and
\* main returns 1.
C10_ConfigFirst ==
    (caller = "main" /\ (env.api_key = Null \/ env.endpoint = Null)) =>
        /\ pc \in {"start", "done"}
        /\ image_paths = <<>>
        /\ failed_conversions = <<>>
        /\ batch_pc = "idle"
        /\ tasks = <<>>
        /\ pc = "done" => exit_code = 1

\* main has returned 1 with the endpoint unset and images waiting
C10_Witness ==
    /\ caller = "main"
    /\ pc = "done"
    /\ env.api_key = "value"
    /\ env.endpoint = Null
    /\ heic_files # <<>>
    /\ exit_code = 1
\* C11: under fair scheduling and a limit C >= 1, every task waiting for
\* the gate eventually acquires it, and a called process_batch eventually
\* returns, whatever the remote calls do.
C11_EventuallyReturns ==
    /\ \A i \in 1..MaxJobs :
         (env.max_concurrent >= 1 /\ i \in DOMAIN tasks /\ tasks[i].st = "waiting")
            ~> (i \in DOMAIN tasks /\ tasks[i].st # "waiting")
    /\ (env.max_concurrent >= 1 /\ pc = "call") ~> (batch_pc = "returned")

\* a batch of two jobs through a gate of one slot has returned although
\* every remote call raised
C11_Witness ==
    /\ batch_pc = "returned"
    /\ env.max_concurrent = 1
    /\ NumJobs = 2
    /\ \A i \in 1..2 : tasks[i].final \in ErrorKinds /\ tasks[i].attempts = 3
\* C12: every kind of failure of the inference step is retried: a job
\* that ended without a parsed record, whether its last attempt raised a
\* network, rate-limit or validation error or returned a response without
\* a parsed record, has made all 3 attempts, never just one.
C12_EveryFailureRetried ==
    \A i \in DOMAIN tasks :
        (tasks[i].st = "done" /\ tasks[i].final # "ExtractionResult") =>
            tasks[i].attempts = 3

\* C13: a task holds exactly one slot of the gate from before its first
\* attempt until its outcome is produced: free slots plus tasks between
\* acquire and release always make C, a waiting task has made no attempt,
\* a task that is attempting or backing off holds its slot, a finished
\* task (success or exhaustion) has given it back, and all C slots are
\* free when process_batch has returned.
C13_OneSlotPerJob ==
    batch_pc \in {"gather", "returned"} =>
        /\ sem + Cardinality(Holding) = env.max_concurrent
        /\ sem >= 0
        /\ \A i \in DOMAIN tasks :
             /\ tasks[i].st = "waiting" =>
                  (tasks[i].attempts = 0 /\ tasks[i].waits = <<>>)
             /\ tasks[i].st \in {"inflight", "sleeping"} =>
                  (i \in Holding /\ tasks[i].attempts >= 1)
             /\ tasks[i].st = "inflight" =>
                  Len(tasks[i].waits) = tasks[i].attempts - 1
             /\ tasks[i].st = "sleeping" =>
                  Len(tasks[i].waits) = tasks[i].attempts
        /\ batch_pc = "returned" =>
             (Holding = {} /\ sem = env.max_concurrent)

\* a batch has returned in which one job exhausted its retries while
\* holding one of two slots and another job succeeded
C13_Witness ==
    /\ batch_pc = "returned"
    /\ env.max_concurrent = 2
    /\ sem = 2
    /\ \E i, j \in DOMAIN tasks :
         /\ tasks[i].final \in ErrorKinds
         /\ tasks[i].waits = <<4, 4>>
         /\ tasks[j].final = "ExtractionResult"
====
